---- MODULE Spec2Model ----
(***************************************************************************)
(* mitt-worker: the hand-rolled consumer of the BullMQ-style               *)
(* 'video-analysis' queue (apps/mitt-worker/src/mitt_worker/worker.py).    *)
(*                                                                         *)
(* The Redis store is modelled by its two lists (bull:video-analysis:wait  *)
(* and bull:video-analysis:active, head of a list = index 1) and by the    *)
(* hashes bull:video-analysis:<id>.  Every consumer is one process running *)
(* run_worker(); pc[c] is the statement the process is at.  A producer     *)
(* LPUSHes raw records on the wait list.                                   *)
(***************************************************************************)
EXTENDS Integers, Sequences, FiniteSets, TLC

\* ---- bounds of the model ----
NumConsumers == 2
MaxJobs == 2

Consumers == 1..NumConsumers
JobIds == 1..MaxJobs

VARIABLES
    wait,       \* list bull:video-analysis:wait
    active,     \* list bull:video-analysis:active
    hashes,     \* hashes bull:video-analysis:<id>, one per key
    pc,         \* per consumer: statement of run_worker it is at
    job_data,   \* per consumer: local job_data (last reply of brpoplpush)
    last,       \* per consumer: how its latest iteration (or run) ended
    acquired,   \* per entry: number of brpoplpush replies that carried it
    invoked,    \* per entry: number of process_video calls made for it
    nextId      \* producer: id of the next job to enqueue

vars == <<wait, active, hashes, pc, job_data, last, acquired, invoked, nextId>>

\* ---- raw records on the wait list ----
\* form of the raw value a producer pushed:
\*   "garbage" : not JSON at all
\*   "scalar"  : well-formed JSON that is not an object (e.g. 5)
\*   "nourl"   : {"id": .., "data": {}}
\*   "noid"    : {"data": {"videoUrl": ..}}
\*   "ok"      : {"id": .., "data": {"videoUrl": ..}}
Forms == {"garbage", "scalar", "nourl", "noid", "ok"}

Raw(u, f) == [uid |-> u, form |-> f]

\* brpoplpush replied None (timeout)
None == [uid |-> 0, form |-> "none"]

\* ---- json.loads(job_data) and the subscripts job["data"]["videoUrl"], job["id"] ----
IsJson(raw) == raw.form # "garbage"

IsDict(raw) == raw.form \in {"nourl", "noid", "ok"}

TopKeys(raw) ==
    CASE raw.form = "nourl" -> {"id", "data"}
      [] raw.form = "noid"  -> {"data"}
      [] raw.form = "ok"    -> {"id", "data"}
      [] OTHER              -> {}

DataKeys(raw) ==
    CASE raw.form = "noid" -> {"videoUrl"}
      [] raw.form = "ok"   -> {"videoUrl"}
      [] OTHER             -> {}

\* outcome of lines 75-76: "ok" or the exception raised
DecodeOutcome(raw) ==
    IF ~IsJson(raw) THEN "JSONDecodeError"
    ELSE IF ~IsDict(raw) THEN "TypeError"
    ELSE IF "data" \notin TopKeys(raw) THEN "KeyError"
    ELSE IF "videoUrl" \notin DataKeys(raw) THEN "KeyError"
    ELSE "ok"

\* outcome of line 80: "ok" or the exception raised
IdOutcome(raw) == IF "id" \in TopKeys(raw) THEN "ok" ELSE "KeyError"

\* the id field of a record that has one
JobIdOf(raw) == raw.uid

\* the data.videoUrl field of a record that has one
VideoUrlOf(raw) == <<"http://x/", raw.uid, ".mp4">>

\* ---- exception handlers of run_worker ----
\* inner handler, line 83: does it catch the exception?
InnerCatches(exc) == exc \in {"JSONDecodeError", "KeyError"}

\* variant: the outer handler leaves the loop on any exception
OuterExceptBreaks(exc) == "exited"

\* outer handlers, lines 85-89: where the loop goes after the exception
OuterExcept(exc) == IF exc = "KeyboardInterrupt" THEN "exited" ELSE "poll"

\* an exception raised inside the inner try block (lines 75-82)
AfterInnerRaise(exc) == IF InnerCatches(exc) THEN "poll" ELSE OuterExcept(exc)

\* ---- process_video and the encoding of its result ----
process_video(video_url) ==
    [routes_detected |-> <<>>, players |-> <<>>, analysis_complete |-> TRUE]

RECURSIVE DumpItems(_)
DumpItems(l) ==
    IF Len(l) = 0 THEN <<>>
    ELSE IF Len(l) = 1 THEN <<l[1]>>
    ELSE <<l[1], ",">> \o DumpItems(Tail(l))

DumpList(l) == <<"[">> \o DumpItems(l) \o <<"]">>

DumpBool(b) == IF b THEN "true" ELSE "false"

\* json.dumps(result): the text as a sequence of tokens
json_dumps(r) ==
    <<"{", "routes_detected", ":">> \o DumpList(r.routes_detected)
    \o <<",", "players", ":">> \o DumpList(r.players)
    \o <<",", "analysis_complete", ":", DumpBool(r.analysis_complete), "}">>

\* ---- the store ----
Absent == <<>>
NoProgress == 0 - 1

\* key bull:video-analysis:<job_id>
JobKey(job_id) == <<"bull", "video-analysis", job_id>>

\* variant: the key is not derived from the job's own id
StoreKeyFixed(raw) == JobKey(1)

\* lines 80-81: the key the result is stored under
StoreKey(raw) == JobKey(JobIdOf(raw))

Keys == {JobKey(i) : i \in JobIds}

EmptyHash == [returnvalue |-> Absent, failedReason |-> Absent, progress |-> NoProgress]

\* variant: the write replaces the whole keyspace by the one hash written
HSetClobbers(h, key, value) ==
    [k \in DOMAIN h |->
        IF k = key THEN [h[k] EXCEPT !.returnvalue = value] ELSE EmptyHash]

\* HSET key returnvalue value
HSetReturnValue(h, key, value) ==
    [h EXCEPT ![key] = [@ EXCEPT !.returnvalue = value]]

\* variant: the element pushed on the destination is the head of the source
RPopTakenHead(src) == src[1]

\* BRPOPLPUSH src dst: the element taken, and the two lists afterwards
RPopTaken(src) == src[Len(src)]
\* variant: the element is read but not removed from the source list
RPopRestKeeps(src) == src

RPopRest(src) == SubSeq(src, 1, Len(src) - 1)
LPush(dst, e) == <<e>> \o dst

Init ==
    /\ wait = <<>>
    /\ active = <<>>
    /\ hashes = [k \in Keys |-> EmptyHash]
    /\ pc = [c \in Consumers |-> "start"]
    /\ job_data = [c \in Consumers |-> None]
    /\ last = [c \in Consumers |-> "none"]
    /\ acquired = [u \in JobIds |-> 0]
    /\ invoked = [u \in JobIds |-> 0]
    /\ nextId = 1

\* producer: LPUSH bull:video-analysis:wait <raw>, with a fresh id
Enqueue ==
    /\ nextId <= MaxJobs
    /\ \E f \in Forms : wait' = LPush(wait, Raw(nextId, f))
    /\ nextId' = nextId + 1
    /\ UNCHANGED <<active, hashes, pc, job_data, last, acquired, invoked>>

\* lines 54-57: from_url and ping succeed
Connect(c) ==
    /\ pc[c] = "start"
    /\ pc' = [pc EXCEPT ![c] = "poll"]
    /\ UNCHANGED <<wait, active, hashes, job_data, last, acquired, invoked, nextId>>

\* variant: the failure is printed and the loop is entered all the same
ConnectFailContinues(c) ==
    /\ pc[c] = "start"
    /\ pc' = [pc EXCEPT ![c] = "poll"]
    /\ last' = [last EXCEPT ![c] = "noconnect"]
    /\ UNCHANGED <<wait, active, hashes, job_data, acquired, invoked, nextId>>

\* lines 58-60: from_url or ping raises, run_worker returns
ConnectFail(c) ==
    /\ pc[c] = "start"
    /\ pc' = [pc EXCEPT ![c] = "exited"]
    /\ last' = [last EXCEPT ![c] = "noconnect"]
    /\ UNCHANGED <<wait, active, hashes, job_data, acquired, invoked, nextId>>

\* variant: the element is popped from the head of wait, where producers push
AcquireFromHead(c) ==
    /\ pc[c] = "poll"
    /\ Len(wait) > 0
    /\ LET e == Head(wait)
           out == DecodeOutcome(e)
       IN
        /\ wait' = Tail(wait)
        /\ active' = LPush(active, e)
        /\ job_data' = [job_data EXCEPT ![c] = e]
        /\ acquired' = [acquired EXCEPT ![e.uid] = @ + 1]
        /\ IF out = "ok"
           THEN /\ pc' = [pc EXCEPT ![c] = "process"]
                /\ last' = [last EXCEPT ![c] = "acquired"]
           ELSE /\ pc' = [pc EXCEPT ![c] = AfterInnerRaise(out)]
                /\ last' = [last EXCEPT ![c] = out]
    /\ UNCHANGED <<hashes, invoked, nextId>>

\* lines 67-76: brpoplpush moves the tail of wait to the head of active and
\* replies with it; json.loads and job["data"]["videoUrl"] follow
Acquire(c) ==
    /\ pc[c] = "poll"
    /\ Len(wait) > 0
    /\ LET e == RPopTaken(wait)
           out == DecodeOutcome(e)
       IN
        /\ wait' = RPopRest(wait)
        /\ active' = LPush(active, e)
        /\ job_data' = [job_data EXCEPT ![c] = e]
        /\ acquired' = [acquired EXCEPT ![e.uid] = @ + 1]
        /\ IF out = "ok"
           THEN /\ pc' = [pc EXCEPT ![c] = "process"]
                /\ last' = [last EXCEPT ![c] = "acquired"]
           ELSE /\ pc' = [pc EXCEPT ![c] = AfterInnerRaise(out)]
                /\ last' = [last EXCEPT ![c] = out]
    /\ UNCHANGED <<hashes, invoked, nextId>>

\* variant: a None reply ends the loop
TimeoutExits(c) ==
    /\ pc[c] = "poll"
    /\ Len(wait) = 0
    /\ job_data' = [job_data EXCEPT ![c] = None]
    /\ last' = [last EXCEPT ![c] = "timeout"]
    /\ pc' = [pc EXCEPT ![c] = "exited"]
    /\ UNCHANGED <<wait, active, hashes, acquired, invoked, nextId>>

\* lines 67-73: brpoplpush times out on an empty list and replies None
Timeout(c) ==
    /\ pc[c] = "poll"
    /\ Len(wait) = 0
    /\ job_data' = [job_data EXCEPT ![c] = None]
    /\ last' = [last EXCEPT ![c] = "timeout"]
    /\ UNCHANGED <<wait, active, hashes, pc, acquired, invoked, nextId>>

\* lines 67, 88-89: brpoplpush raises (store unreachable)
PollError(c) ==
    /\ pc[c] = "poll"
    /\ pc' = [pc EXCEPT ![c] = OuterExcept("ConnectionError")]
    /\ last' = [last EXCEPT ![c] = "pollerr"]
    /\ UNCHANGED <<wait, active, hashes, job_data, acquired, invoked, nextId>>

\* lines 77-82: process_video returns, job["id"] is read and the dumped
\* result is stored with hset
Process(c) ==
    /\ pc[c] = "process"
    /\ invoked' = [invoked EXCEPT ![job_data[c].uid] = @ + 1]
    /\ LET result == process_video(VideoUrlOf(job_data[c]))
           out == IdOutcome(job_data[c])
       IN
        IF out = "ok"
        THEN /\ hashes' = HSetReturnValue(hashes, StoreKey(job_data[c]), json_dumps(result))
             /\ pc' = [pc EXCEPT ![c] = "poll"]
             /\ last' = [last EXCEPT ![c] = "completed"]
        ELSE /\ pc' = [pc EXCEPT ![c] = AfterInnerRaise(out)]
             /\ last' = [last EXCEPT ![c] = "iderr"]
             /\ UNCHANGED hashes
    /\ UNCHANGED <<wait, active, job_data, acquired, nextId>>

\* line 77 (41): process_video raises (print on a closed stream: OSError)
ProcessRaise(c) ==
    /\ pc[c] = "process"
    /\ invoked' = [invoked EXCEPT ![job_data[c].uid] = @ + 1]
    /\ pc' = [pc EXCEPT ![c] = AfterInnerRaise("OSError")]
    /\ last' = [last EXCEPT ![c] = "procerr"]
    /\ UNCHANGED <<wait, active, hashes, job_data, acquired, nextId>>

\* lines 77-81, 88-89: process_video returns, job["id"] is read, hset raises
\* (store unreachable) and the result is dropped
StoreError(c) ==
    /\ pc[c] = "process"
    /\ IdOutcome(job_data[c]) = "ok"
    /\ invoked' = [invoked EXCEPT ![job_data[c].uid] = @ + 1]
    /\ pc' = [pc EXCEPT ![c] = AfterInnerRaise("ConnectionError")]
    /\ last' = [last EXCEPT ![c] = "writeerr"]
    /\ UNCHANGED <<wait, active, hashes, job_data, acquired, nextId>>

\* variant: a stop signal inside a job puts the job back on the wait list
StopRequeues(c) ==
    /\ pc[c] \in {"start", "poll", "process"}
    /\ pc' = [pc EXCEPT ![c] = "exited"]
    /\ last' = [last EXCEPT ![c] =
                IF pc[c] = "process" THEN "stopmidjob" ELSE "stopidle"]
    /\ invoked' = IF pc[c] = "process"
                  THEN [invoked EXCEPT ![job_data[c].uid] = @ + 1]
                  ELSE invoked
    /\ IF pc[c] = "process"
       THEN /\ wait' = wait \o <<job_data[c]>>
            /\ active' = SelectSeq(active, LAMBDA e : e # job_data[c])
       ELSE UNCHANGED <<wait, active>>
    /\ UNCHANGED <<hashes, job_data, acquired, nextId>>

\* lines 85-87: KeyboardInterrupt in the loop, either in brpoplpush or in
\* process_video (time.sleep); before the loop (lines 54-60) it is not
\* caught and ends the process as well
Stop(c) ==
    /\ pc[c] \in {"start", "poll", "process"}
    /\ pc' = [pc EXCEPT ![c] =
                IF pc[c] = "start" THEN "exited" ELSE AfterInnerRaise("KeyboardInterrupt")]
    /\ last' = [last EXCEPT ![c] =
                IF pc[c] = "process" THEN "stopmidjob" ELSE "stopidle"]
    /\ invoked' = IF pc[c] = "process"
                  THEN [invoked EXCEPT ![job_data[c].uid] = @ + 1]
                  ELSE invoked
    /\ UNCHANGED <<wait, active, hashes, job_data, acquired, nextId>>

Next ==
    \/ Enqueue
    \/ \E c \in Consumers : Connect(c)
    \/ \E c \in Consumers : ConnectFail(c)
    \/ \E c \in Consumers : Acquire(c)
    \/ \E c \in Consumers : Timeout(c)
    \/ \E c \in Consumers : PollError(c)
    \/ \E c \in Consumers : Process(c)
    \/ \E c \in Consumers : ProcessRaise(c)
    \/ \E c \in Consumers : StoreError(c)
    \/ \E c \in Consumers : Stop(c)

Spec == Init /\ [][Next]_vars

TypeOK ==
    /\ pc \in [Consumers -> {"start", "poll", "process", "exited"}]
    /\ nextId \in 1..(MaxJobs + 1)
    /\ Len(wait) + Len(active) = nextId - 1

\* ---- fair specification: consumers that keep running, a reachable store ----
\* no stop signal, no store error; every consumer keeps taking its steps
ConsumerStep(c) ==
    \/ Connect(c)
    \/ Acquire(c)
    \/ Timeout(c)
    \/ Process(c)
    \/ ProcessRaise(c)

NextLive ==
    \/ Enqueue
    \/ \E c \in Consumers : Connect(c)
    \/ \E c \in Consumers : Acquire(c)
    \/ \E c \in Consumers : Timeout(c)
    \/ \E c \in Consumers : Process(c)
    \/ \E c \in Consumers : ProcessRaise(c)

FairSpec == Init /\ [][NextLive]_vars /\ \A c \in Consumers : WF_vars(ConsumerStep(c))

\* ---- vocabulary of the properties ----
InJob == {"process"}

InList(l, u) == \E i \in 1..Len(l) : l[i].uid = u

Count(l, u) == Cardinality({i \in 1..Len(l) : l[i].uid = u})

Completed(u) == hashes[JobKey(u)].returnvalue # Absent

Failed(u) == hashes[JobKey(u)].failedReason # Absent

HasTerminal(u) == Completed(u) \/ Failed(u)

HasId(raw) == "id" \in TopKeys(raw)

\* a reader of the store parsing a stored returnvalue back into a result
RECURSIVE ParseItems(_, _, _)
ParseItems(t, i, acc) ==
    IF t[i] = "]" THEN [val |-> acc, next |-> i + 1]
    ELSE IF t[i] = "," THEN ParseItems(t, i + 1, acc)
    ELSE ParseItems(t, i + 1, Append(acc, t[i]))

ParseResult(t) ==
    LET a == ParseItems(t, 5, <<>>)
        b == ParseItems(t, a.next + 4, <<>>)
    IN [routes_detected |-> a.val, players |-> b.val,
        analysis_complete |-> (t[b.next + 3] = "true")]

\* C1: under every interleaving of the consumers, an entry of the wait list
\* is handed to at most one brpoplpush reply, sits in exactly one of the two
\* lists, and process_video is invoked for it at most once; two consumers
\* that are inside a job never hold the same entry.
C1_SingleAcquire ==
    /\ \A u \in JobIds : acquired[u] <= 1 /\ invoked[u] <= 1
    /\ \A u \in JobIds : u < nextId => Count(wait, u) + Count(active, u) = 1
    /\ \A u \in JobIds : (acquired[u] = 1) = InList(active, u)
    /\ \A c1, c2 \in Consumers :
          (c1 # c2 /\ pc[c1] \in InJob /\ pc[c2] \in InJob)
             => job_data[c1].uid # job_data[c2].uid

\* two consumers raced on the queue and each is inside a different job
C1_Witness ==
    \E c1, c2 \in Consumers :
        /\ c1 # c2
        /\ pc[c1] = "process" /\ pc[c2] = "process"
        /\ acquired[job_data[c1].uid] = 1 /\ acquired[job_data[c2].uid] = 1

\* C2: a returnvalue stored under bull:video-analysis:<id> exists only for
\* a job process_video was invoked for, and parses back to exactly the
\* value process_video returned for that job; a consumer that has just
\* completed a job left the value under that job's own key.
C2_ResultStoredUnderOwnKey ==
    /\ \A u \in JobIds :
          Completed(u) =>
             /\ invoked[u] = 1
             /\ ParseResult(hashes[JobKey(u)].returnvalue) = process_video(VideoUrlOf(Raw(u, "ok")))
    /\ \A c \in Consumers :
          (pc[c] = "poll" /\ last[c] = "completed")
             => Completed(JobIdOf(job_data[c]))

\* two different jobs have completed, each with its own record
C2_Witness ==
    \E u1, u2 \in JobIds :
        /\ u1 # u2
        /\ Completed(u1) /\ Completed(u2)
        /\ \E c \in Consumers : pc[c] = "poll" /\ last[c] = "completed"

\* C3: when process_video raised for an acquired job, the consumer is back at
\* polling only with a non-empty failedReason under that job's key.
C3_FailedRecordOnRoutineError ==
    \A c \in Consumers :
        (pc[c] = "poll" /\ last[c] = "procerr" /\ HasId(job_data[c]))
           => Failed(JobIdOf(job_data[c]))

\* C4: when the acquired record failed to decode and carries an id, the
\* consumer is back at polling only with a failedReason under that id.
C4_FailedRecordOnDecodeError ==
    \A c \in Consumers :
        (/\ pc[c] = "poll"
         /\ last[c] \in {"JSONDecodeError", "TypeError", "KeyError"}
         /\ HasId(job_data[c]))
           => Failed(JobIdOf(job_data[c]))

\* outcomes of an iteration that are per-job or store errors
IterationErrors ==
    {"JSONDecodeError", "TypeError", "KeyError", "iderr", "procerr", "pollerr", "writeerr"}

\* C5: a consumer that has left the loop left it on a stop signal (or never
\* entered it because connecting failed); after an iteration that ended in a
\* decode error, a routine error or a store error the consumer is in the loop.
C5_OnlyStopExits ==
    \A c \in Consumers :
        /\ pc[c] = "exited" => last[c] \in {"noconnect", "stopidle", "stopmidjob"}
        /\ last[c] \in IterationErrors => pc[c] \in {"poll"} \cup InJob

\* a consumer whose previous iteration ended in an error has acquired the
\* next job
C5_Witness ==
    \E c \in Consumers :
        /\ pc[c] = "process"
        /\ \A d \in Consumers \ {c} : pc[d] = "start"
        /\ Len(active) = 2
        /\ active[1] = job_data[c]
        /\ DecodeOutcome(active[2]) # "ok"

\* job u is in the wait list and its record carries an id
WaitingWithId(u) == \E i \in 1..Len(wait) : wait[i].uid = u /\ HasId(wait[i])

\* C6: with consumers that keep running and a reachable store, every job in
\* the wait list is eventually acquired, and every such job that carries an
\* id eventually has a terminal record under its key.
C6_EventuallyTerminal ==
    \A u \in JobIds :
        /\ InList(wait, u) ~> InList(active, u)
        /\ WaitingWithId(u) ~> HasTerminal(u)

\* C7: a job with a terminal record is in neither list.
C7_TerminalLeavesLists ==
    \A u \in JobIds :
        HasTerminal(u) => ~InList(wait, u) /\ ~InList(active, u)

\* C8: an acquired job has a progress report (0 at acquisition), and a
\* Completed record exists only for a job whose reported progress is 100.
C8_ProgressReported ==
    \A u \in JobIds :
        /\ InList(active, u) => hashes[JobKey(u)].progress >= 0
        /\ Completed(u) => hashes[JobKey(u)].progress = 100

\* C9: a consumer that exited on a stop signal while it was inside a job has
\* written that job's terminal record.
C9_StopLeavesNoJobHalfHandled ==
    \A c \in Consumers :
        (pc[c] = "exited" /\ last[c] = "stopmidjob" /\ HasId(job_data[c]))
           => HasTerminal(JobIdOf(job_data[c]))

\* C10: a consumer whose write of the terminal record failed does not go
\* back to the polling cycle with the result dropped.
C10_WriteFailureNotDropped ==
    \A c \in Consumers :
        last[c] = "writeerr"
           => (pc[c] \notin {"poll"} \cup InJob \/ HasTerminal(JobIdOf(job_data[c])))

\* C11: once a job has a terminal record, no step changes the returnvalue or
\* the failedReason stored under its key.
C11_TerminalImmutable ==
    [][\A u \in JobIds :
          HasTerminal(u) =>
             /\ hashes'[JobKey(u)].returnvalue = hashes[JobKey(u)].returnvalue
             /\ hashes'[JobKey(u)].failedReason = hashes[JobKey(u)].failedReason]_vars

\* a job has its terminal record and a consumer has just written the record
\* of another job
C11_Witness ==
    \E u \in JobIds, c \in Consumers :
        /\ Completed(u)
        /\ pc[c] = "poll" /\ last[c] = "completed"
        /\ JobIdOf(job_data[c]) # u
        /\ Completed(JobIdOf(job_data[c]))

\* C12: only the producer's enqueue of a fresh job inserts into the wait
\* list; an entry of the active list stays there and never returns to the
\* wait list; the job of a consumer that exited inside it stays in the active
\* list without a terminal record.
C12_NoRequeue ==
    [][/\ \A u \in JobIds :
            (InList(wait', u) /\ ~InList(wait, u))
               => (u = nextId /\ nextId' = nextId + 1 /\ ~InList(active, u))
       /\ \A u \in JobIds :
            InList(active, u) => (InList(active', u) /\ ~InList(wait', u))
       /\ \A c \in Consumers :
            (pc[c] = "exited" /\ last[c] = "stopmidjob")
               => /\ InList(active, job_data[c].uid)
                  /\ InList(active', job_data[c].uid)
                  /\ HasId(job_data[c])
                        => (~HasTerminal(JobIdOf(job_data[c]))
                            /\ ~HasTerminal(JobIdOf(job_data[c]))')]_vars

\* a consumer exited inside its job; another consumer then took the next job
\* and has gone idle, and the first job is still in the active list
C12_Witness ==
    \E c, d \in Consumers :
        /\ c # d
        /\ pc[c] = "exited" /\ last[c] = "stopmidjob"
        /\ pc[d] = "poll" /\ last[d] = "timeout"
        /\ Len(wait) = 0 /\ Len(active) = 2
        /\ active[2] = job_data[c]

EntriesOf(l) == {l[i] : i \in 1..Len(l)}

\* C13: no step deletes a job: every entry of the wait or active list is
\* after the step still in one of the two lists or has a terminal record,
\* and an entry leaves the wait list only in a step that puts that same
\* entry at the head of the active list.
C13_NeverDeleted ==
    [][/\ \A e \in EntriesOf(wait) \cup EntriesOf(active) :
            \/ e \in EntriesOf(wait') \cup EntriesOf(active')
            \/ (HasId(e) /\ HasTerminal(JobIdOf(e))')
       /\ \A e \in EntriesOf(wait) :
            e \notin EntriesOf(wait') => active' = <<e>> \o active]_vars

\* a consumer has moved one entry to the active list while another entry is
\* still waiting
C13_Witness ==
    \E c \in Consumers :
        /\ pc[c] = "process"
        /\ Len(active) = 1 /\ active[1] = job_data[c]
        /\ Len(wait) = 1 /\ acquired[wait[1].uid] = 0

\* C14: a consumer polling an empty wait list is handed no job and starts no
\* processing; the step in which its brpoplpush times out replies None,
\* leaves both lists and every hash unchanged, invokes nothing and leaves
\* the consumer polling.
C14_IdleTimeout ==
    [][\A c \in Consumers :
          (pc[c] = "poll" /\ Len(wait) = 0) =>
             /\ pc'[c] # "process"
             /\ job_data'[c] \in {job_data[c], None}
             /\ (last'[c] = "timeout" /\ last[c] # "timeout") =>
                   /\ pc'[c] = "poll"
                   /\ job_data'[c] = None
                   /\ wait' = wait /\ active' = active /\ hashes' = hashes
                   /\ invoked' = invoked /\ acquired' = acquired]_vars

\* a consumer that worked before has timed out on the empty wait list and is
\* polling again
C14_Witness ==
    \E c \in Consumers :
        /\ pc[c] = "poll" /\ last[c] = "timeout" /\ job_data[c] = None
        /\ Len(wait) = 0 /\ Len(active) >= 1
        /\ \A d \in Consumers \ {c} : pc[d] = "start"

\* C15: the step in which connecting fails ends run_worker and leaves both
\* lists and every hash unchanged; a consumer whose start failed stays
\* exited and is never handed a job.
C15_StartupFailureFatal ==
    [][\A c \in Consumers :
          /\ (pc[c] = "start" /\ last'[c] = "noconnect") =>
                /\ pc'[c] = "exited"
                /\ wait' = wait /\ active' = active /\ hashes' = hashes
          /\ last[c] = "noconnect" =>
                /\ pc[c] = "exited" /\ pc'[c] = "exited"
                /\ job_data[c] = None /\ job_data'[c] = None
                /\ last'[c] = "noconnect"]_vars

\* a consumer failed to connect while jobs are waiting; nobody has moved them
C15_Witness ==
    \E c \in Consumers :
        /\ pc[c] = "exited" /\ last[c] = "noconnect"
        /\ Len(wait) >= 1 /\ Len(active) = 0
        /\ \A d \in Consumers \ {c} : pc[d] = "start"

\* C16: when a consumer is handed a job right after another one, the earlier
\* job (if it carries an id) already has its terminal record.
C16_TerminalBeforeNextAcquire ==
    [][\A c \in Consumers :
          (/\ job_data[c] # None
           /\ job_data'[c] # None
           /\ job_data'[c] # job_data[c]
           /\ HasId(job_data[c]))
             => HasTerminal(JobIdOf(job_data[c]))]_vars

\* C17: process_video is invoked only for a record that is well-formed and
\* carries both id and data.videoUrl.
C17_DecodeBeforeProcess ==
    /\ \A c \in Consumers :
          pc[c] = "process"
             => (HasId(job_data[c]) /\ DecodeOutcome(job_data[c]) = "ok")
    /\ \A e \in EntriesOf(active) :
          invoked[e.uid] >= 1 => (HasId(e) /\ DecodeOutcome(e) = "ok")

\* C18: with a single running consumer (every other one has not started) and
\* producers pushing at the head of the wait list, jobs are acquired in
\* enqueue order (ids are assigned in enqueue order): the active list, read
\* from its head, holds decreasing ids and every waiting job was enqueued
\* after every acquired one; while the consumer processes a job, the
\* process_video call of every job acquired before it has ended and the call
\* for the current job has not.
C18_FifoSingleConsumer ==
    \A c \in Consumers :
        (\A d \in Consumers \ {c} : pc[d] = "start") =>
           /\ \A i, j \in 1..Len(active) : i < j => active[i].uid > active[j].uid
           /\ \A i \in 1..Len(wait), j \in 1..Len(active) : wait[i].uid > active[j].uid
           /\ pc[c] = "process" =>
                 /\ active[1] = job_data[c]
                 /\ invoked[job_data[c].uid] = 0
                 /\ \A i \in 2..Len(active) :
                       DecodeOutcome(active[i]) = "ok" => invoked[active[i].uid] = 1

\* the single consumer has processed the job enqueued first and is now
\* processing the one enqueued second
C18_Witness ==
    \E c \in Consumers :
        /\ \A d \in Consumers \ {c} : pc[d] = "start"
        /\ pc[c] = "process"
        /\ Len(active) = 2
        /\ active[1].uid = 2 /\ active[2].uid = 1
        /\ DecodeOutcome(active[2]) = "ok" /\ invoked[1] = 1

====
